---- MODULE Spec2Model ----
(***************************************************************************)
(* Model of even_more_itertools/itertools.py: the Scanner class (a         *)
(* peekable cursor with predicate driven scan/skip operations) and the     *)
(* generators sectionize, isort, grouper and side_effect.                  *)
(*                                                                         *)
(* Generators are modelled one resumption at a time: an action is one      *)
(* next() call made by the caller on a generator object (or one call of an *)
(* eager method), and runs the generator body up to its next yield,        *)
(* return or raise.                                                        *)
(***************************************************************************)
EXTENDS Integers, Sequences, FiniteSets, Bags, TLC

\* ------------------------------------------------------------------------
\* Bounds of the model
\* ------------------------------------------------------------------------

MaxStream == 3
MaxGens == 2
MaxOps == 4

\* "no value": the result slot of a call that raised
NoItem == 0 - 1

\* ------------------------------------------------------------------------
\* State
\* ------------------------------------------------------------------------
VARIABLES
    pep479,     \* TRUE: the interpreter turns a StopIteration escaping a
                \* generator body into RuntimeError (Python >= 3.7);
                \* FALSE: it silently ends the generator (Python 2, the PY2
                \* branch of the module)
    \* --- Scanner ---
    source,     \* the stream handed to Scanner(stream), kept for reference
    stream,     \* self.stream: the peekable, [cache, it]
    gens,       \* the generator objects returned by scan_while/scan_until
    consumed,   \* every item handed out or discarded so far, in order
    outcome,    \* how the last call on the Scanner ended
    remainder,  \* what the last list(scanner) returned
    drainPos,   \* number of items consumed when list(scanner) last ran, or -1
    nops,       \* number of calls made on the Scanner and its generators
    \* --- sectionize ---
    iterable,   \* the input handed to sectionize(pred, iterable)
    is_section, \* the pred argument, as the set of items it accepts
    it,         \* it = iter(iterable): the items not yet pulled
    buf,        \* buf = deque(maxlen=1): the pushback buffer
    outer,      \* where the sectionize generator itself stands
    subs,       \* the iter_until_section generators yielded so far, with
                \* the marker each was paired with and the items it yielded
    raised,     \* the item named by the ValueError, if one was raised
    inOrder,    \* TRUE while every section was requested only after all
                \* sub-streams handed out before had ended
    \* --- isort ---
    unsorted,   \* the iterable handed to isort(iterable, bufsize, key)
    bufsize,    \* the bufsize argument
    key,        \* the key argument: a function on the items, or NoKey
    feed,       \* it: the items of the input not yet pulled
    heap,       \* buf: the content of the heap, smallest entry first
    pc,         \* where the isort generator stands
    out,        \* the items yielded so far
    \* --- grouper ---
    g_tuples,   \* the tuples argument of grouper(tuples, bare)
    g_bare,     \* the bare argument
    g_unread,   \* the tuples not yet pulled from the input
    g_last_id,  \* last_id
    g_items,    \* items: None, or the list being accumulated
    g_value,    \* value, while grouper is suspended inside the loop
    g_rest,     \* rest, while grouper is suspended inside the loop
    g_pc,       \* where the grouper generator stands
    g_groups,   \* the (key, list) pairs yielded so far
    \* --- side_effect ---
    se_iterable,    \* the iterable argument of side_effect
    se_chunk_size,  \* the chunk_size argument: None or a number
    se_unread,      \* the items not yet pulled from the input
    se_chunk,       \* the items of the current chunk not yet yielded
    se_trace,       \* the calls of fn and the yields, in order
    se_pc           \* where the side_effect generator stands

scannerVars == <<source, stream, gens, consumed, outcome, remainder, drainPos, nops>>
sectionVars == <<iterable, is_section, it, buf, outer, subs, raised, inOrder>>
isortVars == <<unsorted, bufsize, key, feed, heap, pc, out>>
grouperVars == <<g_tuples, g_bare, g_unread, g_last_id, g_items, g_value,
                 g_rest, g_pc, g_groups>>
sideVars == <<se_iterable, se_chunk_size, se_unread, se_chunk, se_trace, se_pc>>
vars == <<pep479, scannerVars, sectionVars, isortVars, grouperVars, sideVars>>

\* ------------------------------------------------------------------------
\* Helpers
\* ------------------------------------------------------------------------
Vals == {0, 1}

\* a predicate is represented by the set of values it accepts
Preds == SUBSET Vals

SeqsUpTo(S, n) == UNION {[1..k -> S] : k \in 0..n}

Holds(p, v) == v \in p

\* def invert(predicate): return lambda v: not predicate(v)
invert(predicate) == {v \in Vals : ~Holds(predicate, v)}

\* what a StopIteration raised inside a generator body becomes for the caller
\* of next() on that generator
StopInsideGenerator == IF pep479 THEN "RuntimeError" ELSE "StopIteration"

\* ------------------------------------------------------------------------
\* peekable (more_itertools), as used by Scanner
\* ------------------------------------------------------------------------
\* peekable(stream): empty cache in front of the iterator
peekable(s) == [cache |-> <<>>, it |-> s]

\* (variant of peek: looks at the next item without keeping it in the cache)
peek_uncached(st) ==
    IF st.cache # <<>>
    THEN [stream |-> st, value |-> Head(st.cache), raised |-> FALSE]
    ELSE IF st.it = <<>>
         THEN [stream |-> st, value |-> NoItem, raised |-> TRUE]
         ELSE [stream |-> [cache |-> <<>>, it |-> Tail(st.it)],
               value |-> Head(st.it), raised |-> FALSE]

\* peekable.peek() without default: fills the one-item cache from the
\* iterator if it is empty; raises StopIteration when there is nothing left
peek(st) ==
    IF st.cache # <<>>
    THEN [stream |-> st, value |-> Head(st.cache), raised |-> FALSE]
    ELSE IF st.it = <<>>
         THEN [stream |-> st, value |-> NoItem, raised |-> TRUE]
         ELSE [stream |-> [cache |-> <<Head(st.it)>>, it |-> Tail(st.it)],
               value |-> Head(st.it), raised |-> FALSE]

\* (variant of pnext: returning the cached item also advances the iterator)
pnext_advance(st) ==
    IF st.cache # <<>>
    THEN [stream |-> [cache |-> <<>>,
                      it |-> IF st.it = <<>> THEN <<>> ELSE Tail(st.it)],
          value |-> Head(st.cache), raised |-> FALSE]
    ELSE IF st.it = <<>>
         THEN [stream |-> st, value |-> NoItem, raised |-> TRUE]
         ELSE [stream |-> [cache |-> <<>>, it |-> Tail(st.it)],
               value |-> Head(st.it), raised |-> FALSE]

\* next(peekable): the cached item first, else the next item of the iterator;
\* raises StopIteration when there is nothing left
pnext(st) ==
    IF st.cache # <<>>
    THEN [stream |-> [cache |-> Tail(st.cache), it |-> st.it],
          value |-> Head(st.cache), raised |-> FALSE]
    ELSE IF st.it = <<>>
         THEN [stream |-> st, value |-> NoItem, raised |-> TRUE]
         ELSE [stream |-> [cache |-> <<>>, it |-> Tail(st.it)],
               value |-> Head(st.it), raised |-> FALSE]

\* ------------------------------------------------------------------------
\* Scanner
\* ------------------------------------------------------------------------
\* (variant of ScanStep: pulls the item before testing it, so that the item
\* that fails the predicate is consumed)
ScanStep_pull(st, pred) ==
    LET obj == pnext(st) IN
    IF obj.raised
    THEN [stream |-> obj.stream, yielded |-> <<>>, end |-> StopInsideGenerator]
    ELSE IF Holds(pred, obj.value)
         THEN [stream |-> obj.stream, yielded |-> <<obj.value>>, end |-> "yield"]
         ELSE [stream |-> obj.stream, yielded |-> <<>>, end |-> "StopIteration"]

\* One resumption of the body of scan_while: runs to the next yield, to the
\* break, or to the StopIteration that peek() raises on an exhausted stream.
ScanStep(st, pred) ==
    LET obj == peek(st) IN
    IF obj.raised
    THEN [stream |-> obj.stream, yielded |-> <<>>, end |-> StopInsideGenerator]
    ELSE IF Holds(pred, obj.value)
         THEN LET nx == pnext(obj.stream) IN
              [stream |-> nx.stream, yielded |-> <<nx.value>>, end |-> "yield"]
         ELSE [stream |-> obj.stream, yielded |-> <<>>, end |-> "StopIteration"]

\* scan_while(pred): calling the generator function only creates the
\* generator object; nothing runs until the first next()
scan_while(pred) ==
    [pred |-> pred, call |-> "scan_while", arg |-> pred, status |-> "new",
     out |-> <<>>, from |-> peekable(<<>>), startPos |-> 0, endPos |-> 0]

\* scan_until(pred): return self.scan_while(invert(pred))
scan_until(pred) ==
    [scan_while(invert(pred)) EXCEPT !.call = "scan_until", !.arg = pred]

\* consume(generator): pull from the generator until it ends or raises
RECURSIVE consume(_, _)
consume(st, pred) ==
    LET r == ScanStep(st, pred) IN
    IF r.end = "yield"
    THEN LET more == consume(r.stream, pred) IN
         [stream |-> more.stream, discarded |-> r.yielded \o more.discarded,
          end |-> more.end]
    ELSE [stream |-> r.stream, discarded |-> <<>>, end |-> r.end]

\* skip_while(pred): consume(self.scan_while(pred))
skip_while(st, pred) == consume(st, scan_while(pred).pred)

\* (variant of skip_until: scans with the predicate itself)
skip_until_plain(st, pred) == consume(st, scan_while(pred).pred)

\* skip_until(pred): consume(self.scan_until(pred))
skip_until(st, pred) == consume(st, scan_until(pred).pred)

\* list(scanner): __iter__ returns the peekable itself, list() pulls until
\* StopIteration
RECURSIVE drain(_)
drain(st) ==
    LET nx == pnext(st) IN
    IF nx.raised
    THEN [stream |-> nx.stream, items |-> <<>>]
    ELSE LET more == drain(nx.stream) IN
         [stream |-> more.stream, items |-> <<nx.value>> \o more.items]

Live(g) == g.status \in {"new", "suspended"}

\* the Scanner part of the state when no Scanner is in use
ScannerIdle ==
    /\ source = <<>>
    /\ stream = peekable(<<>>)
    /\ gens = <<>>
    /\ consumed = <<>>
    /\ outcome = "none"
    /\ remainder = <<>>
    /\ drainPos = 0 - 1
    /\ nops = 0

ScannerInit ==
    /\ pep479 \in BOOLEAN
    /\ source \in SeqsUpTo(Vals, MaxStream)
    /\ stream = peekable(source)
    /\ gens = <<>>
    /\ consumed = <<>>
    /\ outcome = "none"
    /\ remainder = <<>>
    /\ drainPos = 0 - 1
    /\ nops = 0

\* scanner.scan_while(pred)
ScanWhile ==
    /\ nops < MaxOps
    /\ nops' = nops + 1
    /\ Len(gens) < MaxGens
    /\ \E pred \in Preds : gens' = Append(gens, scan_while(pred))
    /\ outcome' = "ok"
    /\ UNCHANGED <<pep479, source, stream, consumed, remainder, drainPos>>

\* scanner.scan_until(pred)
ScanUntil ==
    /\ nops < MaxOps
    /\ nops' = nops + 1
    /\ Len(gens) < MaxGens
    /\ \E pred \in Preds : gens' = Append(gens, scan_until(pred))
    /\ outcome' = "ok"
    /\ UNCHANGED <<pep479, source, stream, consumed, remainder, drainPos>>

\* next(g) on a generator returned by scan_while/scan_until
GenNext ==
    /\ nops < MaxOps
    /\ nops' = nops + 1
    /\ \E i \in 1..Len(gens) :
        /\ Live(gens[i])
        /\ LET g == gens[i]
               r == ScanStep(stream, g.pred)
               started == IF g.status = "new"
                          THEN [g EXCEPT !.from = stream,
                                         !.startPos = Len(consumed)]
                          ELSE g
           IN
           /\ stream' = r.stream
           /\ consumed' = consumed \o r.yielded
           /\ gens' = [gens EXCEPT ![i] =
                         [started EXCEPT
                            !.status = IF r.end = "yield" THEN "suspended" ELSE r.end,
                            !.out = g.out \o r.yielded,
                            !.endPos = Len(consumed) + Len(r.yielded)]]
           /\ outcome' = IF r.end = "yield" THEN "ok" ELSE r.end
    /\ UNCHANGED <<pep479, source, remainder, drainPos>>

\* scanner.skip_while(pred)
SkipWhile ==
    /\ nops < MaxOps
    /\ nops' = nops + 1
    /\ \E pred \in Preds :
        LET r == skip_while(stream, pred) IN
        /\ stream' = r.stream
        /\ consumed' = consumed \o r.discarded
        /\ outcome' = IF r.end = "RuntimeError" THEN "RuntimeError" ELSE "ok"
    /\ UNCHANGED <<pep479, source, gens, remainder, drainPos>>

\* scanner.skip_until(pred)
SkipUntil ==
    /\ nops < MaxOps
    /\ nops' = nops + 1
    /\ \E pred \in Preds :
        LET r == skip_until(stream, pred) IN
        /\ stream' = r.stream
        /\ consumed' = consumed \o r.discarded
        /\ outcome' = IF r.end = "RuntimeError" THEN "RuntimeError" ELSE "ok"
    /\ UNCHANGED <<pep479, source, gens, remainder, drainPos>>

\* next(scanner): Scanner.__next__ returns next(self.stream)
RawNext ==
    /\ nops < MaxOps
    /\ nops' = nops + 1
    /\ LET nx == pnext(stream) IN
        /\ stream' = nx.stream
        /\ consumed' = IF nx.raised THEN consumed ELSE Append(consumed, nx.value)
        /\ outcome' = IF nx.raised THEN "StopIteration" ELSE "ok"
    /\ UNCHANGED <<pep479, source, gens, remainder, drainPos>>

\* list(scanner): Scanner.__iter__ returns iter(self.stream)
RawDrain ==
    /\ nops < MaxOps
    /\ nops' = nops + 1
    /\ LET r == drain(stream) IN
        /\ stream' = r.stream
        /\ remainder' = r.items
        /\ consumed' = consumed \o r.items
    /\ drainPos' = Len(consumed)
    /\ outcome' = "ok"
    /\ UNCHANGED <<pep479, source, gens>>

\* ------------------------------------------------------------------------
\* Properties of the Scanner
\* ------------------------------------------------------------------------
\* the items of s after the first n
Suffix(s, n) == SubSeq(s, n + 1, Len(s))

IsPrefix(s, t) == Len(s) <= Len(t) /\ SubSeq(t, 1, Len(s)) = s

\* the longest prefix of s all of whose items satisfy p
LongestPrefix(s, p) ==
    LET k == CHOOSE n \in 0..Len(s) :
                /\ \A i \in 1..n : Holds(p, s[i])
                /\ n < Len(s) => ~Holds(p, s[n + 1])
    IN SubSeq(s, 1, k)

\* the generator has ended (normally or by raising)
Finished(g) == g.status \in {"StopIteration", "RuntimeError"}

\* nothing but the generator itself consumed items between its first and its
\* last resumption
Alone(g) == g.endPos = g.startPos + Len(g.out)

\* C1: on a fresh Scanner, a fully drained scan_while(p) followed by a full
\* drain of the raw iteration yields the stream itself, split at the first
\* element failing p: the scan yields the longest prefix satisfying p, the
\* raw part starts with the failing element, and the same scan repeated
\* right after the first one yields nothing.
C1_ScanThenDrain ==
    \A i \in 1..Len(gens) :
        LET g == gens[i] IN
        (g.call = "scan_while" /\ Finished(g) /\ g.startPos = 0 /\ Alone(g)) =>
            /\ g.out = LongestPrefix(source, g.arg)
            /\ drainPos = g.endPos =>
                  /\ g.out \o remainder = source
                  /\ remainder # <<>> => ~Holds(g.arg, remainder[1])
            /\ \A j \in 1..Len(gens) :
                  (/\ j # i
                   /\ gens[j].call = "scan_while"
                   /\ gens[j].arg = g.arg
                   /\ gens[j].status # "new"
                   /\ gens[j].startPos = g.endPos) => gens[j].out = <<>>

\* C1 witness: a scan that yielded something and stopped at a failing
\* element, followed by a raw drain that returned the rest
C1_Witness ==
    \E i \in 1..Len(gens) :
        LET g == gens[i] IN
        /\ g.call = "scan_while" /\ Finished(g) /\ g.startPos = 0 /\ Alone(g)
        /\ g.out # <<>>
        /\ drainPos = g.endPos
        /\ remainder # <<>>

\* C6: whatever calls were made, the items handed out or discarded so far are
\* a prefix of the original stream, what is still in the peekable is the
\* rest of it, and a full raw drain returns exactly the unconsumed suffix, so
\* that everything consumed followed by the remainder is the original stream.
C6_RoundTrip ==
    /\ IsPrefix(consumed, source)
    /\ stream.cache \o stream.it = Suffix(source, Len(consumed))
    /\ drainPos >= 0 =>
          /\ remainder = Suffix(source, drainPos)
          /\ SubSeq(consumed, 1, drainPos) \o remainder = source
          /\ consumed = source

\* C6 witness: a scan abandoned part-way, a further item consumed by another
\* call, and a raw drain that returned a non-empty remainder
C6_Witness ==
    /\ drainPos >= 2
    /\ remainder # <<>>
    /\ \E i \in 1..Len(gens) :
          /\ gens[i].status = "suspended"
          /\ Len(gens[i].out) < drainPos

\* C7: from the state in which a scan was started, skip_while/skip_until with
\* the same predicate discards exactly what the drained scan yielded, ends
\* the same way and leaves the Scanner at the same position; and a
\* scan_until(p) yields what a scan with the complement of p yields.
C7_SkipEqualsScan ==
    \A i \in 1..Len(gens) :
        LET g == gens[i]
            r == IF g.call = "scan_while"
                 THEN skip_while(g.from, g.arg)
                 ELSE skip_until(g.from, g.arg)
        IN
        (Finished(g) /\ Alone(g)) =>
            /\ r.discarded = g.out
            /\ r.end = g.status
            /\ r.stream.cache \o r.stream.it = Suffix(source, g.endPos)
            /\ g.call = "scan_until" =>
                  g.out = LongestPrefix(Suffix(source, g.startPos),
                                        {v \in Vals : v \notin g.arg})

\* C7 witness: a drained scan_until that yielded something and stopped in
\* front of an item, started from a state with a filled cache
C7_Witness ==
    \E i \in 1..Len(gens) :
        LET g == gens[i] IN
        /\ g.call = "scan_until" /\ Finished(g) /\ Alone(g)
        /\ g.out # <<>>
        /\ g.from.cache # <<>>
        /\ g.endPos < Len(source)

\* C8: a scan or skip that runs into the end of the stream ends normally: no
\* exception reaches the caller.
C8_EndsNormally ==
    /\ outcome # "RuntimeError"
    /\ \A i \in 1..Len(gens) : gens[i].status # "RuntimeError"

\* the scan gens[i] was left suspended right after yielding an item, and
\* nothing has touched the stream since
Abandoned(i) ==
    /\ gens[i].status = "suspended"
    /\ gens[i].out # <<>>
    /\ gens[i].endPos = Len(consumed)

\* C15: when a scan is abandoned after it has yielded some items, the next
\* raw pull on the Scanner returns the item of the stream that follows the
\* last item the scan yielded (or reports the end of the stream when that
\* item was the last one): no item is skipped and none is repeated.
C15_AbandonedCursor ==
    [][(RawNext /\ \E i \in 1..Len(gens) : Abandoned(i))
       => \A i \in 1..Len(gens) : Abandoned(i) =>
            LET g == gens[i]
                k == g.endPos
            IN
            /\ k \in 1..Len(source)
            /\ g.out[Len(g.out)] = source[k]
            /\ IF k < Len(source)
               THEN /\ outcome' = "ok"
                    /\ consumed' = Append(consumed, source[k + 1])
                    /\ stream'.cache = <<>>
                    /\ stream'.it = SubSeq(source, k + 2, Len(source))
               ELSE /\ outcome' = "StopIteration"
                    /\ consumed' = consumed]_vars

\* C15 witness: the only scan of the Scanner was left suspended after its
\* first item, which was followed by a different item, and one more item
\* has been taken from the stream since
C15_Witness ==
    /\ Len(gens) = 1
    /\ gens[1].status = "suspended"
    /\ Len(gens[1].out) = 1
    /\ gens[1].endPos < Len(source)
    /\ Len(consumed) = gens[1].endPos + 1
    /\ consumed[Len(consumed)] = source[Len(consumed)]
    /\ consumed[Len(consumed)] # gens[1].out[1]
    /\ outcome = "ok"
    /\ drainPos = 0 - 1

ScannerNext ==
    \/ ScanWhile /\ UNCHANGED <<sectionVars, isortVars, grouperVars, sideVars>>
    \/ ScanUntil /\ UNCHANGED <<sectionVars, isortVars, grouperVars, sideVars>>
    \/ GenNext /\ UNCHANGED <<sectionVars, isortVars, grouperVars, sideVars>>
    \/ SkipWhile /\ UNCHANGED <<sectionVars, isortVars, grouperVars, sideVars>>
    \/ SkipUntil /\ UNCHANGED <<sectionVars, isortVars, grouperVars, sideVars>>
    \/ RawNext /\ UNCHANGED <<sectionVars, isortVars, grouperVars, sideVars>>
    \/ RawDrain /\ UNCHANGED <<sectionVars, isortVars, grouperVars, sideVars>>

\* ------------------------------------------------------------------------
\* sectionize
\* ------------------------------------------------------------------------
MaxInput == 4

\* buf = deque(maxlen=1)
maxlen == 1

Items == {0, 1, 2}

\* deque.append on a bounded deque: when the deque is full, the item at the
\* other end is discarded
append(b, item) ==
    IF Len(b) >= maxlen THEN Tail(b) \o <<item>> ELSE Append(b, item)

\* (variant of SectionStep: skips items until one satisfies the predicate)
RECURSIVE SectionStep_skip(_, _, _)
SectionStep_skip(b, i, p) ==
    LET fromBuf == b # <<>>
        item == IF fromBuf THEN Head(b) ELSE Head(i)
        b2 == IF fromBuf THEN Tail(b) ELSE b
        i2 == IF fromBuf THEN i ELSE Tail(i)
    IN
    IF ~fromBuf /\ i = <<>>
    THEN [buf |-> b, it |-> i, item |-> NoItem, end |-> StopInsideGenerator]
    ELSE IF Holds(p, item)
         THEN [buf |-> b2, it |-> i2, item |-> item, end |-> "yield"]
         ELSE SectionStep_skip(b2, i2, p)

\* One resumption of the body of sectionize (the while True loop): takes the
\* buffered item if there is one, else the next item of the input, and
\* yields a section for it or raises ValueError.  next(it) on an exhausted
\* input raises StopIteration inside the generator.
SectionStep(b, i, p) ==
    LET fromBuf == b # <<>>
        item == IF fromBuf THEN Head(b) ELSE Head(i)
        b2 == IF fromBuf THEN Tail(b) ELSE b
        i2 == IF fromBuf THEN i ELSE Tail(i)
    IN
    IF ~fromBuf /\ i = <<>>
    THEN [buf |-> b, it |-> i, item |-> NoItem, end |-> StopInsideGenerator]
    ELSE IF Holds(p, item)
         THEN [buf |-> b2, it |-> i2, item |-> item, end |-> "yield"]
         ELSE [buf |-> b2, it |-> i2, item |-> item, end |-> "ValueError"]

\* (variant of SubStep: drops the marker instead of pushing it back)
SubStep_drop(b, i, p) ==
    IF i = <<>>
    THEN [buf |-> b, it |-> i, item |-> NoItem, end |-> "StopIteration"]
    ELSE IF Holds(p, Head(i))
         THEN [buf |-> b, it |-> Tail(i), item |-> NoItem, end |-> "StopIteration"]
         ELSE [buf |-> b, it |-> Tail(i), item |-> Head(i), end |-> "yield"]

\* One resumption of the body of iter_until_section: pulls the next item of
\* the shared input; a marker is pushed back into buf and ends the
\* sub-stream, any other item is yielded; an exhausted input ends the for
\* loop and with it the sub-stream.
SubStep(b, i, p) ==
    IF i = <<>>
    THEN [buf |-> b, it |-> i, item |-> NoItem, end |-> "StopIteration"]
    ELSE IF Holds(p, Head(i))
         THEN [buf |-> append(b, Head(i)), it |-> Tail(i), item |-> NoItem,
               end |-> "StopIteration"]
         ELSE [buf |-> b, it |-> Tail(i), item |-> Head(i), end |-> "yield"]

\* iter_until_section(): a new generator object, paired with its marker
iter_until_section(marker) ==
    [marker |-> marker, status |-> "new", out |-> <<>>]

\* the sectionize part of the state when sectionize is not in use
SectionIdle ==
    /\ iterable = <<>>
    /\ is_section = {}
    /\ it = <<>>
    /\ buf = <<>>
    /\ outer = "new"
    /\ subs = <<>>
    /\ raised = NoItem
    /\ inOrder = TRUE

SectionInit ==
    /\ pep479 \in BOOLEAN
    /\ iterable \in SeqsUpTo(Items, MaxInput)
    /\ is_section \in SUBSET Items
    /\ it = iterable
    /\ buf = <<>>
    /\ outer = "new"
    /\ subs = <<>>
    /\ raised = NoItem
    /\ inOrder = TRUE

\* next(sections) on the generator returned by sectionize(pred, iterable)
NextSection ==
    /\ outer \in {"new", "suspended"}
    /\ LET r == SectionStep(buf, it, is_section) IN
        /\ buf' = r.buf
        /\ it' = r.it
        /\ outer' = IF r.end = "yield" THEN "suspended" ELSE r.end
        /\ subs' = IF r.end = "yield"
                   THEN Append(subs, iter_until_section(r.item))
                   ELSE subs
        /\ raised' = IF r.end = "ValueError" THEN r.item ELSE raised
    /\ inOrder' = (inOrder /\ \A k \in 1..Len(subs) : ~Live(subs[k]))
    /\ UNCHANGED <<pep479, iterable, is_section>>

\* next(items) on a sub-stream yielded with a section
SubNext ==
    /\ \E k \in 1..Len(subs) :
        /\ Live(subs[k])
        /\ LET r == SubStep(buf, it, is_section) IN
            /\ buf' = r.buf
            /\ it' = r.it
            /\ subs' = [subs EXCEPT ![k] =
                          [@ EXCEPT
                             !.status = IF r.end = "yield" THEN "suspended" ELSE r.end,
                             !.out = IF r.end = "yield" THEN Append(@, r.item) ELSE @]]
    /\ UNCHANGED <<pep479, iterable, is_section, outer, raised, inOrder>>

\* ------------------------------------------------------------------------
\* Properties of sectionize
\* ------------------------------------------------------------------------
\* the items pulled from the input so far
Pulled == SubSeq(iterable, 1, Len(iterable) - Len(it))

\* every marker yielded so far followed by the items its sub-stream yielded
RECURSIVE Rebuilt(_)
Rebuilt(ss) ==
    IF ss = <<>>
    THEN <<>>
    ELSE <<Head(ss).marker>> \o Head(ss).out \o Rebuilt(Tail(ss))

Markers(ss) == [k \in 1..Len(ss) |-> ss[k].marker]

IsMarker(v) == Holds(is_section, v)

Count(s, v) == Cardinality({k \in 1..Len(s) : s[k] = v})

Ended(status) == status \in {"StopIteration", "RuntimeError", "ValueError"}

\* C2: when the input starts with a marker and every sub-stream is drained
\* before the next section is requested, the sections yielded are the
\* markers of the input in order, each sub-stream yields the items strictly
\* between its marker and the next one (none for a marker directly followed
\* by a marker), no ValueError is raised, and the markers followed by their
\* items give back the input.
C2_SectionsInOrder ==
    (inOrder /\ iterable # <<>> /\ IsMarker(iterable[1])) =>
        /\ raised = NoItem
        /\ outer # "ValueError"
        /\ Rebuilt(subs) \o buf = Pulled
        /\ Markers(subs) \o buf = SelectSeq(Pulled, IsMarker)
        /\ \A k \in 1..Len(subs) :
              \A j \in 1..Len(subs[k].out) : ~IsMarker(subs[k].out[j])
        /\ Ended(outer) => Rebuilt(subs) = iterable

\* C2 witness: a run in order that reached the end of the input, with at
\* least two sections, one of them with items and one without
C2_Witness ==
    /\ inOrder /\ iterable # <<>> /\ IsMarker(iterable[1])
    /\ Ended(outer)
    /\ Len(subs) >= 2
    /\ \E k \in 1..Len(subs) : subs[k].out # <<>>
    /\ \E k \in 1..Len(subs) : subs[k].out = <<>>

\* C3: when the first item of the input is not a marker, the first pull on
\* sectionize raises ValueError naming that item and no section is yielded.
C3_FirstMustBeSection ==
    (iterable # <<>> /\ ~IsMarker(iterable[1]) /\ outer # "new") =>
        /\ outer = "ValueError"
        /\ raised = iterable[1]
        /\ subs = <<>>

\* C3 witness: the ValueError was raised on an input that has a marker
\* after its first item
C3_Witness ==
    /\ Len(iterable) >= 2
    /\ ~IsMarker(iterable[1])
    /\ IsMarker(iterable[2])
    /\ outer = "ValueError"
    /\ raised = iterable[1]

\* C4: whatever the order of section requests and sub-stream pulls, every
\* item pulled from the input is either still held in the pushback buffer or
\* was delivered exactly once, as a marker, as an item of a sub-stream or as
\* the item named by the ValueError: no item is lost.
C4_NoItemLost ==
    \A v \in Items :
        Count(Pulled, v) =
            Count(Rebuilt(subs), v) + Count(buf, v) + (IF raised = v THEN 1 ELSE 0)

\* C5: a request for the next section made while the sub-stream of the
\* current section still has an item to yield raises ValueError naming that
\* item and yields no section.
C5_UndrainedRejected ==
    [][(/\ NextSection
        /\ subs # <<>>
        /\ Live(subs[Len(subs)])
        /\ it # <<>>
        /\ ~IsMarker(Head(it)))
       => (/\ outer' = "ValueError"
           /\ raised' = Head(it)
           /\ subs' = subs)]_vars

\* C9: on an exhausted input sectionize ends normally: the section sequence
\* ends without an exception, and so does a sub-stream being drained.
C9_EndsNormally ==
    /\ outer # "RuntimeError"
    /\ \A k \in 1..Len(subs) : subs[k].status # "RuntimeError"

\* no item occurs twice in s
Distinct(s) == \A i, j \in 1..Len(s) : i # j => s[i] # s[j]

\* the place (from 1) of an item in an input without repeated items
Place(v) == CHOOSE i \in 1..Len(iterable) : iterable[i] = v

\* C17: a sub-stream only yields items of its own section: every item it
\* has yielded lies in the input after its marker with no marker in
\* between, and no sub-stream of an earlier section is able to yield an item
\* once a later section has been yielded. Stated on inputs without repeated
\* items, where an item identifies its place.
C17_OwnSectionOnly ==
    Distinct(iterable) =>
        /\ \A k \in 1..Len(subs) : \A n \in 1..Len(subs[k].out) :
              LET m == Place(subs[k].marker)
                  x == Place(subs[k].out[n])
              IN /\ m < x
                 /\ \A q \in (m + 1)..x : ~IsMarker(iterable[q])
        /\ \A k \in 1..(Len(subs) - 1) :
              ~(Live(subs[k]) /\ SubStep(buf, it, is_section).end = "yield")

SectionNext ==
    \/ NextSection /\ UNCHANGED <<scannerVars, isortVars, grouperVars, sideVars>>
    \/ SubNext /\ UNCHANGED <<scannerVars, isortVars, grouperVars, sideVars>>
\* ------------------------------------------------------------------------
\* isort
\* ------------------------------------------------------------------------
MaxSortInput == 4
MaxBuf == 3

SortItems == {0, 1, 2}

\* key=None
NoKey == <<>>

KeyFns == [SortItems -> {0, 1}]

\* (variant of count: counts upwards, as count() does by default)
count_up(n) == n

\* count(0, -1): the value it hands out after n earlier ones
count(n) == 0 - n

\* comparison of the decorated triples (key, counter, item), as Python
\* compares tuples: by the first component that differs
TupleLess(a, b) ==
    \/ a[1] < b[1]
    \/ a[1] = b[1] /\ a[2] < b[2]
    \/ a[1] = b[1] /\ a[2] = b[2] /\ a[3] < b[3]

\* the < that heapq applies to the entries of buf: plain items without a
\* key, decorated triples with one
Less(k, a, b) == IF k = NoKey THEN a < b ELSE TupleLess(a, b)

\* zip(map(key, i1), count(0, -1), i2): the n-th item (from 0) of the input,
\* decorated; without a key the item itself
decorate(k, item, n) ==
    IF k = NoKey THEN item ELSE <<k[item], count(n), item>>

\* [2] of a decorated triple; without a key the entry is the item
undecorate(k, entry) == IF k = NoKey THEN entry ELSE entry[3]

\* a heap is represented by its entries in ascending order: heapq promises
\* only that the smallest entry is taken first
RECURSIVE insert(_, _, _)
insert(k, h, e) ==
    IF h = <<>>
    THEN <<e>>
    ELSE IF Less(k, e, Head(h))
         THEN <<e>> \o h
         ELSE <<Head(h)>> \o insert(k, Tail(h), e)

\* heapify(buf)
RECURSIVE heapify(_, _)
heapify(k, entries) ==
    IF entries = <<>>
    THEN <<>>
    ELSE insert(k, heapify(k, Tail(entries)), Head(entries))

\* (variant of heappop: the largest entry is removed)
heappop_largest(h) ==
    [heap |-> SubSeq(h, 1, Len(h) - 1), entry |-> h[Len(h)]]

\* heappop(buf): removes and returns the smallest entry
heappop(h) == [heap |-> Tail(h), entry |-> Head(h)]

\* (variant of heappushpop: what heapreplace does, the smallest entry of the
\* heap is returned without being compared with the item)
heappushpop_replace(k, h, e) ==
    IF h # <<>>
    THEN [heap |-> insert(k, Tail(h), e), entry |-> Head(h)]
    ELSE [heap |-> h, entry |-> e]

\* heappushpop(buf, item): when the smallest entry of the heap is smaller
\* than the item, the item replaces it and that entry is returned; else the
\* item itself is returned and the heap is left alone
heappushpop(k, h, e) ==
    IF h # <<>> /\ Less(k, Head(h), e)
    THEN [heap |-> insert(k, Tail(h), e), entry |-> Head(h)]
    ELSE [heap |-> h, entry |-> e]

\* (variant of take: one item short)
take_short(k, n, items) ==
    LET m == IF n < 1 THEN 0
             ELSE IF n - 1 < Len(items) THEN n - 1 ELSE Len(items) IN
    [taken |-> [j \in 1..m |-> decorate(k, items[j], j - 1)],
     rest |-> SubSeq(items, m + 1, Len(items))]

\* (variant of take: one item too many)
take_more(k, n, items) ==
    LET m == IF n + 1 < Len(items) THEN n + 1 ELSE Len(items) IN
    [taken |-> [j \in 1..m |-> decorate(k, items[j], j - 1)],
     rest |-> SubSeq(items, m + 1, Len(items))]

\* take(bufsize, it): the first bufsize items of the input, decorated, the
\* first one getting counter number 0
take(k, n, items) ==
    LET m == IF n < Len(items) THEN n ELSE Len(items) IN
    [taken |-> [j \in 1..m |-> decorate(k, items[j], j - 1)],
     rest |-> SubSeq(items, m + 1, Len(items))]

\* the part of the state when isort is not in use
IsortIdle ==
    /\ unsorted = <<>>
    /\ bufsize = 1
    /\ key = NoKey
    /\ feed = <<>>
    /\ heap = <<>>
    /\ pc = "new"
    /\ out = <<>>

IsortInit ==
    /\ pep479 \in BOOLEAN
    /\ unsorted \in SeqsUpTo(SortItems, MaxSortInput)
    /\ bufsize \in (0 - 1)..MaxBuf
    /\ key \in KeyFns \cup {NoKey}
    /\ feed = unsorted
    /\ heap = <<>>
    /\ pc = "new"
    /\ out = <<>>

\* the for loop and the while loop of isort, from the point where the
\* generator was suspended (or from the filled heap on the first
\* resumption): the for loop pulls an item and yields heappushpop; once the
\* input is exhausted the while loop yields heappop until buf is empty
Emit(k, h, items, n) ==
    IF items # <<>>
    THEN LET r == heappushpop(k, h, decorate(k, Head(items), n)) IN
         [heap |-> r.heap, feed |-> Tail(items), pc |-> "for",
          yielded |-> <<undecorate(k, r.entry)>>]
    ELSE IF h # <<>>
         THEN LET r == heappop(h) IN
              [heap |-> r.heap, feed |-> items, pc |-> "while",
               yielded |-> <<undecorate(k, r.entry)>>]
         ELSE [heap |-> h, feed |-> items, pc |-> "StopIteration",
               yielded |-> <<>>]

\* list(isort(items, n, k)) for n >= 0: everything the generator yields,
\* from the first resumption to its end
RECURSIVE EmitAll(_, _, _, _)
EmitAll(k, h, items, n) ==
    LET r == Emit(k, h, items, n) IN
    IF r.pc = "StopIteration"
    THEN <<>>
    ELSE r.yielded \o EmitAll(k, r.heap, r.feed, n + 1)

isort(items, n, k) ==
    LET t == take(k, n, items) IN
    EmitAll(k, heapify(k, t.taken), t.rest, Len(t.taken))

\* the first next() on isort(...): fills and heapifies buf, then runs to the
\* first yield; islice refuses a negative bufsize with ValueError
IsortStart ==
    /\ pc = "new"
    /\ IF bufsize < 0
       THEN /\ pc' = "ValueError"
            /\ UNCHANGED <<feed, heap, out>>
       ELSE LET t == take(key, bufsize, feed)
                r == Emit(key, heapify(key, t.taken), t.rest,
                          Len(unsorted) - Len(t.rest))
            IN
            /\ heap' = r.heap
            /\ feed' = r.feed
            /\ pc' = r.pc
            /\ out' = out \o r.yielded
    /\ UNCHANGED <<pep479, unsorted, bufsize, key>>

\* a later next() on isort(...)
IsortNext ==
    /\ pc \in {"for", "while"}
    /\ LET r == Emit(key, heap, feed, Len(unsorted) - Len(feed)) IN
        /\ heap' = r.heap
        /\ feed' = r.feed
        /\ pc' = r.pc
        /\ out' = out \o r.yielded
    /\ UNCHANGED <<pep479, unsorted, bufsize, key>>

\* ------------------------------------------------------------------------
\* Properties of isort
\* ------------------------------------------------------------------------
\* the place (from 1) of an item in an input without repeated items
Arrival(v) == CHOOSE i \in 1..Len(unsorted) : unsorted[i] = v

\* the number of input items isort has pulled when it yields its n-th item
PulledAt(n) ==
    IF bufsize + n < Len(unsorted) THEN bufsize + n ELSE Len(unsorted)

\* the places of the input in the order in which a window that always gives
\* up its item of smallest key, and among those the one that arrived last,
\* lets them go; done is the set of places already let go
RECURSIVE LatestOfSmallestFirst(_)
LatestOfSmallestFirst(done) ==
    IF Cardinality(done) = Len(unsorted)
    THEN <<>>
    ELSE LET window == (1..PulledAt(Cardinality(done) + 1)) \ done
             best == CHOOSE i \in window :
                        \A j \in window \ {i} :
                            \/ key[unsorted[j]] > key[unsorted[i]]
                            \/ key[unsorted[j]] = key[unsorted[i]] /\ j < i
         IN <<best>> \o LatestOfSmallestFirst(done \cup {best})

\* C10 as stated: with a key function and bufsize >= 1, of two input items
\* with equal keys the one that arrived earlier is emitted first.
C10_TiesByArrival ==
    (key # NoKey /\ bufsize >= 1 /\ Distinct(unsorted)) =>
        \A a, b \in 1..Len(out) :
            (a < b /\ key[out[a]] = key[out[b]]) =>
                Arrival(out[a]) < Arrival(out[b])

\* C10 as amended: with a key function and bufsize >= 1, isort breaks key
\* ties inside its lookahead window by reverse arrival order.  Every item
\* yielded is, among the items pulled and not yet yielded, the latest arrived
\* one of smallest key; of two input items with equal keys the earlier one is
\* emitted first only when it is emitted before the later one is pulled.
C10_TiesByRecency ==
    (key # NoKey /\ bufsize >= 1) =>
        /\ LET order == LatestOfSmallestFirst({}) IN
           out = [n \in 1..Len(out) |-> unsorted[order[n]]]
        /\ Distinct(unsorted) =>
              \A a, b \in 1..Len(out) :
                  (/\ a < b
                   /\ key[out[a]] = key[out[b]]
                   /\ Arrival(out[a]) < Arrival(out[b]))
                  => Arrival(out[b]) > PulledAt(a)

\* C10 witness: a finished run in which a later item overtook an earlier one
\* of equal key inside the window, and an earlier item of equal key left
\* the window before a later one was pulled
C10_Witness ==
    /\ key # NoKey /\ bufsize >= 1 /\ Distinct(unsorted)
    /\ pc = "StopIteration"
    /\ \E a, b \in 1..Len(out) :
          /\ a < b
          /\ key[out[a]] = key[out[b]]
          /\ Arrival(out[a]) > Arrival(out[b])
    /\ \E a, b \in 1..Len(out) :
          /\ a < b
          /\ key[out[a]] = key[out[b]]
          /\ Arrival(out[a]) < Arrival(out[b])

\* C11: a bufsize <= 0 is rejected when isort is called: the call fails,
\* no item is pulled from the input and none is passed through.
C11_RejectsNonPositive ==
    bufsize <= 0 =>
        /\ pc = "ValueError"
        /\ feed = unsorted
        /\ out = <<>>

\* the places of the input in the order in which a window that always gives
\* up its smallest item lets them go; done is the set of places already let
\* go
RECURSIVE SmallestFirst(_)
SmallestFirst(done) ==
    IF Cardinality(done) = Len(unsorted)
    THEN <<>>
    ELSE LET window == (1..PulledAt(Cardinality(done) + 1)) \ done
             best == CHOOSE i \in window :
                        \A j \in window : unsorted[i] <= unsorted[j]
         IN <<best>> \o SmallestFirst(done \cup {best})

\* C12: without a key and with bufsize >= 1, the n-th item yielded is the
\* smallest of the items not yet yielded among the first bufsize + n items
\* of the input, and the complete output is a permutation of the input.
C12_SmallestInWindow ==
    (key = NoKey /\ bufsize >= 1) =>
        /\ LET order == SmallestFirst({}) IN
           out = [n \in 1..Len(out) |-> unsorted[order[n]]]
        /\ pc = "StopIteration" =>
              /\ Len(out) = Len(unsorted)
              /\ \A v \in SortItems : Count(out, v) = Count(unsorted, v)

\* C12 witness: a finished run in which a small item that arrived late was
\* yielded late, because it was outside the window before
C12_Witness ==
    /\ key = NoKey /\ bufsize >= 1
    /\ pc = "StopIteration"
    /\ bufsize + 1 < Len(unsorted)
    /\ \E n \in 1..(Len(out) - 1) : out[n] > out[n + 1]

\* the number of adjacent pairs of s that are in order
OrderedPairs(s) ==
    Cardinality({n \in 1..(Len(s) - 1) : s[n] <= s[n + 1]})

\* C13: a larger bufsize never gives a less sorted output: the output for
\* any bufsize b2 >= bufsize has at least as many adjacent pairs in order as
\* the output for bufsize.
C13_LargerIsBetter ==
    (key = NoKey /\ bufsize >= 1 /\ pc = "StopIteration") =>
        \A b2 \in bufsize..(MaxBuf + 1) :
            OrderedPairs(isort(unsorted, b2, NoKey)) >= OrderedPairs(out)

\* C13 witness: a finished run whose output is not sorted, where a larger
\* bufsize within the range compared gives strictly more pairs in order
C13_Witness ==
    /\ key = NoKey /\ bufsize >= 1 /\ pc = "StopIteration"
    /\ \E b2 \in bufsize..(MaxBuf + 1) :
          OrderedPairs(isort(unsorted, b2, NoKey)) > OrderedPairs(out)

\* the place of the i-th input item in the stably sorted input
SortedPlace(i) ==
    1 + Cardinality({j \in 1..Len(unsorted) :
                        \/ unsorted[j] < unsorted[i]
                        \/ unsorted[j] = unsorted[i] /\ j < i})

\* the input, sorted
SortedInput ==
    [p \in 1..Len(unsorted) |->
        unsorted[CHOOSE i \in 1..Len(unsorted) : SortedPlace(i) = p]]

\* no item stands more than bufsize places behind its place in the sorted
\* input
WithinReach == \A i \in 1..Len(unsorted) : i - SortedPlace(i) <= bufsize

\* C18: without a key and with bufsize >= 1, when no item of the input
\* stands more than bufsize places behind its sorted place (as when bufsize
\* is at least the length of the input), the output is the sorted input.
C18_SortedWhenWithinReach ==
    (key = NoKey /\ bufsize >= 1 /\ WithinReach) =>
        /\ out = SubSeq(SortedInput, 1, Len(out))
        /\ pc = "StopIteration" => out = SortedInput

\* C18 witness: a finished run on an input longer than bufsize that is not
\* sorted but within reach
C18_Witness ==
    /\ key = NoKey /\ bufsize >= 1 /\ WithinReach
    /\ pc = "StopIteration"
    /\ bufsize < Len(unsorted)
    /\ unsorted # SortedInput

\* C19: the heap never holds more than bufsize entries, and whenever isort
\* hands an item to its consumer it has pulled at most bufsize items more
\* than it has yielded.
C19_BoundedLookahead ==
    bufsize >= 0 =>
        /\ Len(heap) <= bufsize
        /\ pc \in {"for", "while"} =>
              (Len(unsorted) - Len(feed)) - Len(out) <= bufsize

\* C19 witness: isort suspended in its for loop with a full heap, with input
\* left to pull
C19_Witness ==
    /\ bufsize >= 1
    /\ pc = "for"
    /\ Len(heap) = bufsize
    /\ feed # <<>>
    /\ (Len(unsorted) - Len(feed)) - Len(out) = bufsize

IsortStep ==
    \/ IsortStart /\ UNCHANGED <<scannerVars, sectionVars, grouperVars, sideVars>>
    \/ IsortNext /\ UNCHANGED <<scannerVars, sectionVars, grouperVars, sideVars>>

\* ------------------------------------------------------------------------
\* grouper
\* ------------------------------------------------------------------------
MaxTuples == 4

\* the leading elements and the other elements of the tuples of the model
Keys == {0, 1}
Fields == {0, 1}

\* the tuples of the model: pairs, and triples ending in 0
Tuples ==
    {<<k, f>> : k \in Keys, f \in Fields} \cup
    {<<k, f, 0>> : k \in Keys, f \in Fields}

\* last_id = object(): a dummy that equals no leading element
dummy == NoItem

\* items = None, and items bound to a list
None == <<>>
List(l) == <<l>>

\* (variant of unpack: without bare the whole tuple is taken as the
\* remainder)
unpack_whole(b, tup) ==
    IF b
    THEN IF Len(tup) = 2
         THEN [value |-> tup[1], rest |-> tup[2], raised |-> FALSE]
         ELSE [value |-> NoItem, rest |-> NoItem, raised |-> TRUE]
    ELSE [value |-> tup[1], rest |-> tup, raised |-> FALSE]

\* one item of the generator expression grouper wraps around its input:
\* (value, rest) for value, rest in tuples when bare, which raises
\* ValueError on a tuple that is not a pair, else (tup[0], tup[1:])
unpack(b, tup) ==
    IF b
    THEN IF Len(tup) = 2
         THEN [value |-> tup[1], rest |-> tup[2], raised |-> FALSE]
         ELSE [value |-> NoItem, rest |-> NoItem, raised |-> TRUE]
    ELSE [value |-> tup[1], rest |-> Tail(tup), raised |-> FALSE]

\* (variant of fresh: the new item is appended to the list of the previous
\* run)
fresh_keep(l, r) == IF l = None THEN List(<<r>>) ELSE List(l[1] \o <<r>>)

\* items = [] followed by items.append(rest), entered with items bound to l
fresh(l, r) == List(<<r>>)

\* the for loop of grouper from the pull of the next tuple up to the next
\* yield, the end of the generator or the exception; id and l are last_id
\* and items
RECURSIVE GroupLoop(_, _, _, _)
GroupLoop(b, todo, id, l) ==
    IF todo = <<>>
    THEN [unread |-> todo, last_id |-> id, items |-> l,
          value |-> NoItem, rest |-> NoItem,
          pc |-> IF l # None THEN "last" ELSE "StopIteration",
          yielded |-> IF l # None THEN <<<<id, l[1]>>>> ELSE <<>>]
    ELSE LET u == unpack(b, Head(todo)) IN
         IF u.raised
         THEN [unread |-> Tail(todo), last_id |-> id, items |-> l,
               value |-> NoItem, rest |-> NoItem,
               pc |-> "ValueError", yielded |-> <<>>]
         ELSE IF u.value # id
              THEN IF l # None
                   THEN [unread |-> Tail(todo), last_id |-> id, items |-> l,
                         value |-> u.value, rest |-> u.rest,
                         pc |-> "loop", yielded |-> <<<<id, l[1]>>>>]
                   ELSE GroupLoop(b, Tail(todo), u.value, fresh(l, u.rest))
              ELSE GroupLoop(b, Tail(todo), id, List(l[1] \o <<u.rest>>))

\* the grouper part of the state when grouper is not in use
GrouperIdle ==
    /\ g_tuples = <<>>
    /\ g_bare = FALSE
    /\ g_unread = <<>>
    /\ g_last_id = dummy
    /\ g_items = None
    /\ g_value = NoItem
    /\ g_rest = NoItem
    /\ g_pc = "new"
    /\ g_groups = <<>>

\* grouper(tuples, bare) was called: no line of the body has run yet
GrouperInit ==
    /\ pep479 \in BOOLEAN
    /\ g_tuples \in SeqsUpTo(Tuples, MaxTuples)
    /\ g_bare \in BOOLEAN
    /\ g_unread = g_tuples
    /\ g_last_id = dummy
    /\ g_items = None
    /\ g_value = NoItem
    /\ g_rest = NoItem
    /\ g_pc = "new"
    /\ g_groups = <<>>

\* next() on the generator returned by grouper(tuples, bare)
GrouperNext ==
    /\ g_pc \in {"new", "loop", "last"}
    /\ LET r == IF g_pc = "new"
                THEN GroupLoop(g_bare, g_unread, g_last_id, g_items)
                ELSE IF g_pc = "loop"
                THEN GroupLoop(g_bare, g_unread, g_value,
                               fresh(g_items, g_rest))
                ELSE [unread |-> g_unread, last_id |-> g_last_id,
                      items |-> g_items, value |-> NoItem, rest |-> NoItem,
                      pc |-> "StopIteration", yielded |-> <<>>]
       IN
       /\ g_unread' = r.unread
       /\ g_last_id' = r.last_id
       /\ g_items' = r.items
       /\ g_value' = r.value
       /\ g_rest' = r.rest
       /\ g_pc' = r.pc
       /\ g_groups' = g_groups \o r.yielded
    /\ UNCHANGED <<pep479, g_tuples, g_bare>>

\* ------------------------------------------------------------------------
\* Properties of grouper
\* ------------------------------------------------------------------------
\* the input is one grouper is documented for: with bare, pairs only
Groupable == g_bare => \A i \in 1..Len(g_tuples) : Len(g_tuples[i]) = 2

\* the places of the input where a run of equal leading elements starts
RunStarts ==
    {i \in 1..Len(g_tuples) :
        i = 1 \/ g_tuples[i][1] # g_tuples[i - 1][1]}

\* the place where the n-th run starts, and the place where it ends
RunStart(n) ==
    CHOOSE i \in RunStarts : Cardinality({j \in RunStarts : j <= i}) = n

RunEnd(n) ==
    IF n = Cardinality(RunStarts) THEN Len(g_tuples) ELSE RunStart(n + 1) - 1

\* what is left of a tuple without its leading element
Remainder(tup) == IF g_bare THEN tup[2] ELSE SubSeq(tup, 2, Len(tup))

\* the group of the n-th run
Run(n) ==
    <<g_tuples[RunStart(n)][1],
      [j \in 1..(RunEnd(n) - RunStart(n) + 1) |->
          Remainder(g_tuples[RunStart(n) + j - 1])]>>

\* C14: the groups yielded are the maximal runs of consecutive tuples with
\* equal leading element, in input order, each with the remainders of its
\* tuples in order (the second elements when bare is set); no list is
\* empty, adjacent groups have different keys, runs of the same key that are
\* not adjacent stay separate, and the empty input yields nothing.
C14_ConsecutiveRuns ==
    Groupable =>
        /\ Len(g_groups) <= Cardinality(RunStarts)
        /\ \A n \in 1..Len(g_groups) :
              /\ g_groups[n] = Run(n)
              /\ g_groups[n][2] # <<>>
        /\ \A n \in 1..(Len(g_groups) - 1) :
              g_groups[n][1] # g_groups[n + 1][1]
        /\ g_pc = "StopIteration" => Len(g_groups) = Cardinality(RunStarts)
        /\ g_tuples = <<>> => g_groups = <<>>

\* C14 witness: a finished run that yielded three groups, the first and the
\* third with the same key, one of them with more than one item
C14_Witness ==
    /\ Groupable
    /\ g_pc = "StopIteration"
    /\ Len(g_groups) = 3
    /\ g_groups[1][1] = g_groups[3][1]
    /\ \E n \in 1..3 : Len(g_groups[n][2]) > 1

\* the number of tuples pulled from the input, and the number of tuples in
\* the groups yielded so far
TuplesPulled == Len(g_tuples) - Len(g_unread)

RECURSIVE TuplesGrouped(_)
TuplesGrouped(gs) ==
    IF gs = <<>> THEN 0 ELSE Len(Head(gs)[2]) + TuplesGrouped(Tail(gs))

\* C20: when a group is yielded inside the loop, exactly one tuple beyond
\* its run has been pulled, and that tuple has a different key; the last
\* group is yielded when the input is exhausted, with nothing pulled beyond
\* its run, and once only; items never holds more than the remainders of
\* one run.
C20_Streaming ==
    Groupable =>
        /\ g_pc = "new" => (g_groups = <<>> /\ TuplesPulled = 0)
        /\ g_pc = "loop" =>
              /\ g_groups # <<>>
              /\ TuplesPulled = TuplesGrouped(g_groups) + 1
              /\ g_value = g_tuples[TuplesPulled][1]
              /\ g_value # g_groups[Len(g_groups)][1]
        /\ g_pc = "last" =>
              /\ g_groups # <<>>
              /\ g_unread = <<>>
              /\ TuplesPulled = TuplesGrouped(g_groups)
        /\ g_pc = "StopIteration" =>
              /\ g_unread = <<>>
              /\ TuplesGrouped(g_groups) = Len(g_tuples)
              /\ Len(g_groups) = Cardinality(RunStarts)
        /\ g_items # None =>
              /\ g_groups # <<>>
              /\ g_items[1] = Run(Len(g_groups))[2]

\* C20 witness: grouper suspended inside its loop after yielding a run of
\* two tuples, with input left to pull
C20_Witness ==
    /\ Groupable
    /\ g_pc = "loop"
    /\ g_groups # <<>>
    /\ Len(g_groups[Len(g_groups)][2]) = 2
    /\ g_unread # <<>>
    /\ TuplesPulled = TuplesGrouped(g_groups) + 1


GrouperStep ==
    \/ GrouperNext /\ UNCHANGED <<scannerVars, sectionVars, isortVars, sideVars>>

\* ------------------------------------------------------------------------
\* side_effect
\* ------------------------------------------------------------------------
MaxSeries == 4
MaxChunk == 3

\* chunk_size=None
NoChunk == NoItem

\* the entries of the trace: fn(arg) was called, item was yielded
Fn(arg) == [op |-> "fn", arg |-> arg]
Yield(item) == [op |-> "yield", arg |-> item]

\* (variant of tap: the item is yielded first and fn is called afterwards)
tap_late(arg, item) == <<Yield(item), Fn(arg)>>

\* fn(item); yield item, and fn(chunk) followed by the yield of the first
\* item of the chunk
tap(arg, item) == <<Fn(arg), Yield(item)>>

\* next() on chunked(iterable, n) for n >= 1: the next n items of the
\* input as a list, fewer at the end of the input, none when it is exhausted
chunked(n, s) ==
    LET m == IF n < Len(s) THEN n ELSE Len(s) IN
    [chunk |-> SubSeq(s, 1, m), rest |-> SubSeq(s, m + 1, Len(s))]

\* the body of side_effect from one resumption to the next yield or the
\* end: n is chunk_size, s the input not yet pulled, c the items of the
\* current chunk not yet yielded
SideStep(n, s, c) ==
    IF n = NoChunk
    THEN IF s = <<>>
         THEN [unread |-> s, chunk |-> c, events |-> <<>>,
               pc |-> "StopIteration"]
         ELSE [unread |-> Tail(s), chunk |-> c,
               events |-> tap(Head(s), Head(s)), pc |-> "item"]
    ELSE IF c # <<>>
         THEN [unread |-> s, chunk |-> Tail(c),
               events |-> <<Yield(Head(c))>>, pc |-> "chunk"]
         ELSE LET nx == chunked(n, s) IN
              IF nx.chunk = <<>>
              THEN [unread |-> nx.rest, chunk |-> <<>>, events |-> <<>>,
                    pc |-> "StopIteration"]
              ELSE [unread |-> nx.rest, chunk |-> Tail(nx.chunk),
                    events |-> tap(nx.chunk, Head(nx.chunk)),
                    pc |-> "chunk"]

\* the side_effect part of the state when side_effect is not in use
SideIdle ==
    /\ se_iterable = <<>>
    /\ se_chunk_size = NoChunk
    /\ se_unread = <<>>
    /\ se_chunk = <<>>
    /\ se_trace = <<>>
    /\ se_pc = "new"

\* side_effect(fn, iterable, chunk_size) was called: no line of the body
\* has run yet
SideInit ==
    /\ pep479 \in BOOLEAN
    /\ se_iterable \in SeqsUpTo(Vals, MaxSeries)
    /\ se_chunk_size \in {NoChunk} \cup (1..MaxChunk)
    /\ se_unread = se_iterable
    /\ se_chunk = <<>>
    /\ se_trace = <<>>
    /\ se_pc = "new"

\* next() on the generator returned by side_effect(fn, iterable, chunk_size)
SideNext ==
    /\ se_pc \in {"new", "item", "chunk"}
    /\ LET r == SideStep(se_chunk_size, se_unread, se_chunk) IN
        /\ se_unread' = r.unread
        /\ se_chunk' = r.chunk
        /\ se_trace' = se_trace \o r.events
        /\ se_pc' = r.pc
    /\ UNCHANGED <<pep479, se_iterable, se_chunk_size>>

\* ------------------------------------------------------------------------
\* Properties of side_effect
\* ------------------------------------------------------------------------
IsFn(e) == e.op = "fn"
IsYield(e) == e.op = "yield"

Args(es) == [n \in 1..Len(es) |-> es[n].arg]

\* the arguments fn was called with, and the items yielded, in order
Calls(tr) == Args(SelectSeq(tr, IsFn))
Yielded(tr) == Args(SelectSeq(tr, IsYield))

RECURSIVE Flatten(_)
Flatten(ss) == IF ss = <<>> THEN <<>> ELSE Head(ss) \o Flatten(Tail(ss))

\* C16: the items yielded are the items of the input, in order. Without
\* chunk_size fn is called once for each item yielded, right before that
\* item is yielded, and for no other item. With chunk_size c fn is called
\* once for each chunk of c consecutive items and once for a shorter,
\* non-empty last chunk, before any item of the chunk is yielded and not
\* before the chunk before it is yielded completely; the chunks together
\* are the input.
C16_TapInOrder ==
    LET ys == Yielded(se_trace)
        cs == Calls(se_trace)
    IN
    /\ ys = SubSeq(se_iterable, 1, Len(ys))
    /\ se_pc = "StopIteration" => ys = se_iterable
    /\ se_chunk_size = NoChunk =>
          /\ cs = ys
          /\ \A n \in 1..Len(se_trace) :
                IsYield(se_trace[n]) =>
                    /\ n > 1
                    /\ IsFn(se_trace[n - 1])
                    /\ se_trace[n - 1].arg = se_trace[n].arg
    /\ se_chunk_size # NoChunk =>
          /\ Flatten(cs) = SubSeq(se_iterable, 1, Len(Flatten(cs)))
          /\ se_pc = "StopIteration" => Flatten(cs) = se_iterable
          /\ \A n \in 1..Len(cs) :
                /\ Len(cs[n]) \in 1..se_chunk_size
                /\ Len(cs[n]) < se_chunk_size =>
                      /\ n = Len(cs)
                      /\ Len(Flatten(cs)) = Len(se_iterable)
          /\ \A n \in 1..Len(se_trace) :
                LET before == SubSeq(se_trace, 1, n) IN
                /\ Len(Yielded(before)) <= Len(Flatten(Calls(before)))
                /\ IsFn(se_trace[n]) =>
                      Len(Yielded(before)) =
                          Len(Flatten(Calls(before))) - Len(se_trace[n].arg)

\* C16 witness: a finished run with chunk_size 2 on an input of three
\* items: one full chunk and a shorter last one
C16_Witness ==
    /\ se_chunk_size = 2
    /\ se_pc = "StopIteration"
    /\ Len(se_iterable) = 3
    /\ Len(Calls(se_trace)) = 2
    /\ Len(Calls(se_trace)[2]) = 1

SideEffectNext ==
    \/ SideNext /\ UNCHANGED <<scannerVars, sectionVars, isortVars, grouperVars>>

\* ------------------------------------------------------------------------
\* Specifications: one per component, the other components standing idle
\* ------------------------------------------------------------------------
InitScanner ==
    ScannerInit /\ SectionIdle /\ IsortIdle /\ GrouperIdle /\ SideIdle

ScannerSpec == InitScanner /\ [][ScannerNext]_vars

InitSection ==
    SectionInit /\ ScannerIdle /\ IsortIdle /\ GrouperIdle /\ SideIdle

SectionSpec == InitSection /\ [][SectionNext]_vars

InitIsort ==
    IsortInit /\ ScannerIdle /\ SectionIdle /\ GrouperIdle /\ SideIdle

IsortSpec == InitIsort /\ [][IsortStep]_vars

InitGrouper ==
    GrouperInit /\ ScannerIdle /\ SectionIdle /\ IsortIdle /\ SideIdle

GrouperSpec == InitGrouper /\ [][GrouperStep]_vars

InitSide ==
    SideInit /\ ScannerIdle /\ SectionIdle /\ IsortIdle /\ GrouperIdle

SideSpec == InitSide /\ [][SideEffectNext]_vars

====
